---------------------------- MODULE Spec2Model ----------------------------
(***************************************************************************)
(* A model of src/cosalib/cmdlib.py: the helpers of coreos-assembler's     *)
(* python commands.  Three specifications share the module:                *)
(*                                                                         *)
(*   SpecJson    write_json / load_json on one directory, two callers      *)
(*   SpecImport  import_ostree_commit on one OSTree repository             *)
(*   SpecProc    run_verbose, fatal and get_basearch in one process        *)
(*                                                                         *)
(* What the standard library and the external tools do (buffered text      *)
(* files, rename(2), ostree, tar) is modelled by its documented contract;  *)
(* what cmdlib.py does with them is translated line by line.               *)
(***************************************************************************)
EXTENDS Integers, Sequences, FiniteSets, TLC

VARIABLES
    \* ---- the directory of `path` (write_json, load_json)
    dir,        \* name -> inode id, or NoFile
    files,      \* inode id -> [content, mode]
    wpc,        \* caller -> position in write_json
    wdata,      \* caller -> the `data` argument
    wbuf,       \* caller -> text written to f and still in f's buffer
    wpos,       \* caller -> number of chunks json.dump has written
    wname,      \* caller -> f.name
    werr,       \* caller -> the exception in flight, or "none"
    \* ---- the OSTree repository (import_ostree_commit)
    repoInit,   \* whether `repo` is an initialised repository
    commits,    \* commit -> "absent" | "partial" | "complete"
    tmpdirs,    \* the temporary directories that exist under `repo`
    ipc,        \* position in import_ostree_commit
    iargs,      \* the arguments of the call in progress
    isteps,     \* the subprocesses the call has run: <<[cmd, rc], ...>>
    iseen,      \* what the existence check of the call saw
    itmp,       \* the call's TemporaryDirectory, or NoDir
    ibefore,    \* repository state when the call started
    iprev,      \* the previous call, once it has ended
    icalls,     \* number of calls started
    \* ---- the process (run_verbose, fatal, get_basearch)
    rpc,        \* position in run_verbose
    rargs,      \* args
    rpassed,    \* kwargs, as the caller passed them
    rkwargs,    \* kwargs, as handed to subprocess.run
    rchild,     \* the child process: whether it has exited, its status
    rresult,    \* what run_verbose returned, or NoResult
    stdout,     \* the lines printed
    exitmsg,    \* the message of the SystemExit that ended the process
    rcalls,     \* number of run_verbose calls started
    saved,      \* get_basearch.saved, or Unset
    queries,    \* number of RpmOstree.get_basearch() calls
    returned    \* the values get_basearch has returned, in order

jsonVars == <<dir, files, wpc, wdata, wbuf, wpos, wname, werr>>
importVars == <<repoInit, commits, tmpdirs, ipc, iargs, isteps, iseen, itmp,
                ibefore, iprev, icalls>>
procVars == <<rpc, rargs, rpassed, rkwargs, rchild, rresult, stdout, exitmsg, rcalls,
              saved, queries, returned>>
vars == <<jsonVars, importVars, procVars>>

-----------------------------------------------------------------------------
(* Bounds of the model *)

\* the longest list handed to write_json
MaxLen == 1
\* the largest integer inside a JSON document
MaxInt == 1
\* the size of a text file's write buffer, in tokens
BufSize == 3
\* import_ostree_commit calls in one run
MaxImports == 3
\* run_verbose calls in one run
MaxRuns == 2
\* get_basearch calls in one run
MaxArchCalls == 3

-----------------------------------------------------------------------------
(* JSON documents *)

\* a python int
JInt(n) == [type |-> "int", v |-> n]
\* a python object json has no encoding for (a set, a bytes, ...)
PyObject == [type |-> "object"]

Items == {JInt(n) : n \in 0..MaxInt} \cup {PyObject}

SeqsUpTo(S, n) == UNION {[1..k -> S] : k \in 0..n}

\* the `data` arguments: lists ("dict or list", line 74)
Datas == SeqsUpTo(Items, MaxLen)

Serializable(data) == \A i \in 1..Len(data) : data[i].type = "int"

\* json.dump(data, f, indent=4) writes the chunks of iterencode(data) one
\* f.write() at a time.  A chunk is a sequence of tokens; "\n" stands for
\* a newline and its indentation.  For a list: "[]" when empty, else
\* "[" NL item, then "," NL item for each further item, then NL, then "]".
\* An item json cannot encode gets its separator written, and then
\* TypeError is raised: the chunks before it have been written already.
ItemChunk(data, i) ==
    LET sep == IF i = 1 THEN <<"[", "\n">> ELSE <<",", "\n">>
    IN  IF data[i].type = "int" THEN sep \o <<ToString(data[i].v)>>
        ELSE sep

Chunks(data) ==
    IF data = <<>> THEN << <<"[]">> >>
    ELSE [i \in 1..Len(data) |-> ItemChunk(data, i)] \o << <<"\n">>, <<"]">> >>

\* the number of chunks json.dump writes before it returns or raises
NChunks(data) ==
    IF Serializable(data) THEN Len(Chunks(data))
    ELSE CHOOSE i \in 1..Len(data) :
            /\ data[i].type = "object"
            /\ \A j \in 1..(i-1) : data[j].type = "int"

RECURSIVE Flatten(_)
Flatten(ss) == IF ss = <<>> THEN <<>> ELSE Head(ss) \o Flatten(Tail(ss))

\* the complete serialization of data
Document(data) == Flatten(Chunks(data))

\* json.load: the decoder, on the tokens of a file
IsIntTok(t) == \E n \in 0..MaxInt : ToString(n) = t
ParseInt(t) == CHOOSE n \in 0..MaxInt : ToString(n) = t

RECURSIVE SkipWs(_)
SkipWs(t) ==
    IF t = <<>> THEN <<>>
    ELSE IF Head(t) = "\n" THEN SkipWs(Tail(t))
    ELSE <<Head(t)>> \o SkipWs(Tail(t))

Loaded(v) == [ok |-> TRUE, value |-> v]
LoadError(e) == [ok |-> FALSE, error |-> e]

\* the items after "[" or ",": item ("," item)* "]" and nothing after it
RECURSIVE ParseItems(_)
ParseItems(t) ==
    IF Len(t) < 2 \/ ~IsIntTok(t[1]) THEN LoadError("ValueError")
    ELSE IF t[2] = "]"
         THEN IF Len(t) = 2 THEN Loaded(<<JInt(ParseInt(t[1]))>>)
              ELSE LoadError("ValueError")
    ELSE IF t[2] = ","
         THEN LET r == ParseItems(SubSeq(t, 3, Len(t)))
              IN  IF r.ok THEN Loaded(<<JInt(ParseInt(t[1]))>> \o r.value)
                  ELSE r
    ELSE LoadError("ValueError")

json_load(content) ==
    LET t == SkipWs(content)
    IN  IF t = <<>> THEN LoadError("ValueError")
        ELSE IF t = <<"[]">> THEN Loaded(<<>>)
        ELSE IF Head(t) = "[" THEN ParseItems(Tail(t))
        ELSE LoadError("ValueError")

-----------------------------------------------------------------------------
(* The directory and its files *)

NoFile == "NoFile"
Path == "path"
TmpNames == {"tmpA", "tmpB"}
Names == {Path} \cup TmpNames

Writers == {"w1", "w2"}
\* an inode per temporary file created, and one for what path held before
Prior == "prior"
Inodes == Writers \cup {Prior}

\* what path may hold before any write_json
PriorDatas == {<<>>, <<JInt(0), JInt(1)>>}

File(content, mode) == [content |-> content, mode |-> mode]
\* an inode that was never created
NoInode == File(<<>>, "none")

\* what a reader that opens `name` reads
Missing == [exists |-> FALSE]
Content(text) == [exists |-> TRUE, content |-> text]
View(name) ==
    IF dir[name] = NoFile THEN Missing ELSE Content(files[dir[name]].content)

\* load_json(path), lines 84-95
load_json(name) ==
    IF dir[name] = NoFile THEN LoadError("IOError")
    ELSE json_load(files[dir[name]].content)

\* f.write(chunk) on a buffered file: the text joins the buffer, and every
\* full BufSize of it goes to the file
Buffered(buf, chunk) ==
    LET all == buf \o chunk
        n == (Len(all) \div BufSize) * BufSize
    IN  [flushed |-> SubSeq(all, 1, n), pending |-> SubSeq(all, n + 1, Len(all))]

Appended(f, text) == [f EXCEPT !.content = @ \o text]


-----------------------------------------------------------------------------
(* write_json(path, data), lines 67-81, one caller w *)

InitJson ==
    /\ \E exists \in BOOLEAN, prior \in PriorDatas :
          /\ dir = [n \in Names |->
                      IF n = Path /\ exists THEN Prior ELSE NoFile]
          /\ files = [i \in Inodes |->
                      IF i = Prior /\ exists
                      THEN File(Document(prior), "0644") ELSE NoInode]
    /\ wpc = [w \in Writers |-> "idle"]
    /\ wdata = [w \in Writers |-> <<>>]
    /\ wbuf = [w \in Writers |-> <<>>]
    /\ wpos = [w \in Writers |-> 0]
    /\ wname = [w \in Writers |-> NoFile]
    /\ werr = [w \in Writers |-> "none"]

\* lines 77-78: f = tempfile.NamedTemporaryFile(mode='w', dir=dn,
\* delete=False): a new empty file of mode 0600 under a name nothing in
\* the directory of path has; delete=False: closing f does not unlink it
write_json_open(w, data) ==
    /\ wpc[w] = "idle"
    /\ \E n \in TmpNames :
          /\ dir[n] = NoFile
          /\ dir' = [dir EXCEPT ![n] = w]
          /\ wname' = [wname EXCEPT ![w] = n]
    /\ files' = [files EXCEPT ![w] = File(<<>>, "0600")]
    /\ wdata' = [wdata EXCEPT ![w] = data]
    /\ wpc' = [wpc EXCEPT ![w] = "dump"]
    /\ UNCHANGED <<wbuf, wpos, werr>>
    /\ UNCHANGED <<importVars, procVars>>

\* where the exception e leaves the call: on its way out
Raise(w, e) ==
    /\ werr' = [werr EXCEPT ![w] = e]
    /\ wpc' = [wpc EXCEPT ![w] = "exit"]

\* line 79: json.dump(data, f, indent=4), one chunk.  The chunk goes
\* through f's buffer; when that fills, the write to the disk may fail
\* (OSError).  The chunk before an item json cannot encode is written,
\* then TypeError is raised.
write_json_dump(w) ==
    /\ wpc[w] = "dump"
    /\ LET k == wpos[w] + 1
           b == Buffered(wbuf[w], Chunks(wdata[w])[k])
       IN  \E diskOk \in BOOLEAN :
             /\ diskOk \/ b.flushed # <<>>
             /\ wpos' = [wpos EXCEPT ![w] = k]
             /\ IF diskOk
                THEN /\ files' = [files EXCEPT ![w] = Appended(@, b.flushed)]
                     /\ wbuf' = [wbuf EXCEPT ![w] = b.pending]
                ELSE /\ files' = files
                     /\ wbuf' = [wbuf EXCEPT ![w] = b.flushed \o b.pending]
             /\ IF ~diskOk THEN Raise(w, "OSError")
                ELSE IF ~Serializable(wdata[w]) /\ k = NChunks(wdata[w])
                     THEN Raise(w, "TypeError")
                ELSE IF k = NChunks(wdata[w])
                     THEN /\ wpc' = [wpc EXCEPT ![w] = "fchmod"]
                          /\ werr' = werr
                ELSE UNCHANGED <<wpc, werr>>
    /\ UNCHANGED <<dir, wdata, wname>>
    /\ UNCHANGED <<importVars, procVars>>

\* line 80: os.fchmod(f.file.fileno(), 0o644); f is not flushed
write_json_fchmod(w) ==
    /\ wpc[w] = "fchmod"
    /\ \E ok \in BOOLEAN :
          IF ok
          THEN /\ files' = [files EXCEPT ![w].mode = "0644"]
               /\ wpc' = [wpc EXCEPT ![w] = "rename"]
               /\ werr' = werr
          ELSE /\ Raise(w, "OSError")
               /\ files' = files
    /\ UNCHANGED <<dir, wdata, wbuf, wpos, wname>>
    /\ UNCHANGED <<importVars, procVars>>

\* the directory after rename(2) of name `from` onto name `to`
Renamed(d, from, to) == [d EXCEPT ![to] = d[from], ![from] = NoFile]

\* line 81: os.rename(f.name, path); f is neither flushed nor closed
\* before it, so what f's buffer holds is not in the file yet
write_json_rename(w) ==
    /\ wpc[w] = "rename"
    /\ \E ok \in BOOLEAN :
          IF ok
          THEN /\ dir' = Renamed(dir, wname[w], Path)
               /\ wpc' = [wpc EXCEPT ![w] = "exit"]
               /\ werr' = werr
          ELSE /\ Raise(w, "OSError")
               /\ dir' = dir
    /\ UNCHANGED <<files, wdata, wbuf, wpos, wname>>
    /\ UNCHANGED <<importVars, procVars>>

\* the end of the call, by return or by exception: f, a local, is dropped
\* and its finalizer closes it, which writes the buffer out.  An error of
\* that write is swallowed by the finalizer.  Nothing unlinks f.name.
write_json_exit(w) ==
    /\ wpc[w] = "exit"
    /\ \E diskOk \in BOOLEAN :
          files' = [files EXCEPT ![w] =
                      IF diskOk THEN Appended(@, wbuf[w]) ELSE @]
    /\ wbuf' = [wbuf EXCEPT ![w] = <<>>]
    /\ wpc' = [wpc EXCEPT ![w] =
                 IF werr[w] = "none" THEN "returned" ELSE "raised"]
    /\ UNCHANGED <<dir, wdata, wpos, wname, werr>>
    /\ UNCHANGED <<importVars, procVars>>

\* the process is killed inside the call: what f's buffer holds is lost
write_json_killed(w) ==
    /\ wpc[w] \in {"dump", "fchmod", "rename", "exit"}
    /\ wpc' = [wpc EXCEPT ![w] = "killed"]
    /\ wbuf' = [wbuf EXCEPT ![w] = <<>>]
    /\ UNCHANGED <<dir, files, wdata, wpos, wname, werr>>
    /\ UNCHANGED <<importVars, procVars>>

NextJson ==
    \E w \in Writers :
       \/ \E data \in Datas : write_json_open(w, data)
       \/ write_json_dump(w)
       \/ write_json_fchmod(w)
       \/ write_json_rename(w)
       \/ write_json_exit(w)
       \/ write_json_killed(w)

-----------------------------------------------------------------------------
(* The OSTree repository *)

Commits == {"c1", "c2"}
\* c1.tar holds a repository with commit c1; bad.tar is not a tar archive
Tarfiles == {"c1.tar", "bad.tar"}
TarHolds(t) == IF t = "c1.tar" THEN {"c1"} ELSE {}
TarReadable(t) == t # "bad.tar"

TmpDirNames == {"tmpX", "tmpY"}
NoDir == "NoDir"

\* a commit in the repository: whether its commit object is there, and
\* whether state/<commit>.commitpartial is
CommitState(object, partial) == [object |-> object, partial |-> partial]
CommitStates == {CommitState(o, p) : o, p \in BOOLEAN}
Absent == CommitState(FALSE, FALSE)
Complete == CommitState(TRUE, FALSE)
Partial == CommitState(TRUE, TRUE)

Step(cmd, rc) == [cmd |-> cmd, rc |-> rc]
ExitCodes == {0, 1}

ImportArgs == [commit : Commits, tarfile : Tarfiles, force : BOOLEAN]
NoArgs == [commit |-> "none", tarfile |-> "none", force |-> FALSE]
NoCall == [args |-> NoArgs, outcome |-> "none", steps |-> <<>>]
RepoState == [repoInit |-> repoInit, commits |-> commits, tmpdirs |-> tmpdirs]

InitImport ==
    /\ repoInit \in BOOLEAN
    /\ commits \in [Commits -> CommitStates]
    /\ repoInit \/ commits = [c \in Commits |-> Absent]
    /\ tmpdirs \in {{}, {"tmpX"}}
    /\ repoInit \/ tmpdirs = {}
    /\ ipc = "idle"
    /\ iargs = NoArgs
    /\ isteps = <<>>
    /\ iseen = [rc |-> 0, partial |-> FALSE]
    /\ itmp = NoDir
    /\ ibefore = RepoState
    /\ iprev = NoCall
    /\ icalls = 0

\* check_call taken for subprocess.call: the exit status is ignored
check_call_unchecked(rc) == "ok"

\* subprocess.check_call: returns on exit status 0, raises
\* CalledProcessError on any other
check_call(rc) == IF rc = 0 THEN "ok" ELSE "CalledProcessError"

\* the exit statuses `ostree init --repo repo --mode=archive` can end with
InitExits == ExitCodes
\* `ostree show --repo repo commit` exits 0 when the repository has the
\* commit object and non-zero when it has not
ShowExit(c) == IF c.object THEN 0 ELSE 1
\* `tar -C d -xf tarfile` cannot succeed on what is not an archive
TarExits(t) == IF TarReadable(t) THEN ExitCodes ELSE {1}
\* `ostree pull-local --repo repo d commit` cannot succeed when the
\* extracted repository has no such commit
PullExits(extracted, commit) == IF commit \in extracted THEN ExitCodes ELSE {1}

\* line 182: subprocess.check_call(['ostree', 'init', ...]), the first
\* statement of import_ostree_commit(repo, commit, tarfile, force)
import_ostree_commit_init(args) ==
    /\ ipc \in {"idle", "returned", "raised"}
    /\ icalls < MaxImports
    /\ icalls' = icalls + 1
    /\ iprev' = IF ipc = "idle" THEN NoCall
                ELSE [args |-> iargs, outcome |-> ipc, steps |-> isteps]
    /\ ibefore' = RepoState
    /\ iargs' = args
    /\ itmp' = NoDir
    /\ iseen' = [rc |-> 0, partial |-> FALSE]
    /\ \E rc \in InitExits :
          /\ isteps' = <<Step("init", rc)>>
          /\ IF check_call(rc) = "ok"
             THEN /\ repoInit' = TRUE
                  /\ ipc' = "show"
             ELSE /\ repoInit' = repoInit
                  /\ ipc' = "raised"
    /\ UNCHANGED <<commits, tmpdirs>>
    /\ UNCHANGED <<jsonVars, procVars>>

\* the early return with `and force` for `and not force`
SkipImportWhenForced(rc, partial, force) == rc = 0 /\ ~partial /\ force
\* the early return without the marker file test
SkipImportIgnoringMarker(rc, partial, force) == rc = 0 /\ ~force

\* lines 187-191: the condition of the early return
SkipImport(rc, partial, force) == rc = 0 /\ ~partial /\ ~force

\* lines 186-192: the existence check, run silently with subprocess.call
\* (which returns the exit status and never raises on it), the marker
\* file test, and the early return
import_ostree_commit_show ==
    /\ ipc = "show"
    /\ LET rc == ShowExit(commits[iargs.commit])
           partial == commits[iargs.commit].partial
       IN  /\ isteps' = Append(isteps, Step("show", rc))
           /\ iseen' = [rc |-> rc, partial |-> partial]
           /\ ipc' = IF SkipImport(rc, partial, iargs.force)
                     THEN "returned" ELSE "extract"
    /\ UNCHANGED <<repoInit, commits, tmpdirs, iargs, itmp, ibefore, iprev,
                   icalls>>
    /\ UNCHANGED <<jsonVars, procVars>>

\* a temporary directory removed at the end of the block only, as with
\* mkdtemp() and a trailing rmtree()
CleanupAtEndOnly(dirs, d, raised) == IF raised THEN dirs ELSE dirs \ {d}

\* TemporaryDirectory.__exit__: the directory is removed when the with
\* block is left, by its end or by an exception
Cleanup(dirs, d, raised) == dirs \ {d}

\* lines 195-196: with tempfile.TemporaryDirectory(dir=repo) as d, and
\* check_call(['tar', '-C', d, '-xf', tarfile]) inside it
import_ostree_commit_extract ==
    /\ ipc = "extract"
    /\ \E d \in TmpDirNames \ tmpdirs, rc \in TarExits(iargs.tarfile) :
          /\ isteps' = Append(isteps, Step("tar", rc))
          /\ IF check_call(rc) = "ok"
             THEN /\ tmpdirs' = tmpdirs \cup {d}
                  /\ itmp' = d
                  /\ ipc' = "pull"
             ELSE /\ tmpdirs' = Cleanup(tmpdirs \cup {d}, d, TRUE)
                  /\ itmp' = NoDir
                  /\ ipc' = "raised"
    /\ UNCHANGED <<repoInit, commits, iargs, iseen, ibefore, iprev, icalls>>
    /\ UNCHANGED <<jsonVars, procVars>>

\* what a pull-local that exits 0 leaves: the whole commit, no marker
Pulled(c) == Complete
\* what a pull-local that fails may leave: the commit as it was, or the
\* commit object with its marker
PullFailed(c) == {c, Partial}

\* lines 197-198: check_call(['ostree', 'pull-local', '--repo', repo, d,
\* commit]), then the end of the with block
import_ostree_commit_pull ==
    /\ ipc = "pull"
    /\ \E rc \in PullExits(TarHolds(iargs.tarfile), iargs.commit) :
          /\ isteps' = Append(isteps, Step("pull", rc))
          /\ IF check_call(rc) = "ok"
             THEN /\ commits' = [commits EXCEPT ![iargs.commit] = Pulled(@)]
                  /\ tmpdirs' = Cleanup(tmpdirs, itmp, FALSE)
                  /\ ipc' = "returned"
             ELSE /\ \E left \in PullFailed(commits[iargs.commit]) :
                        commits' = [commits EXCEPT ![iargs.commit] = left]
                  /\ tmpdirs' = Cleanup(tmpdirs, itmp, TRUE)
                  /\ ipc' = "raised"
    /\ itmp' = NoDir
    /\ UNCHANGED <<repoInit, iargs, iseen, ibefore, iprev, icalls>>
    /\ UNCHANGED <<jsonVars, procVars>>

NextImport ==
    \/ \E args \in ImportArgs : import_ostree_commit_init(args)
    \/ import_ostree_commit_show
    \/ import_ostree_commit_extract
    \/ import_ostree_commit_pull

-----------------------------------------------------------------------------
(* The process: run_verbose, fatal, get_basearch *)

\* the command lines run
ArgLists == {<<"ostree", "init">>, <<"tar", "-xf">>}
NoArgList == <<>>

\* keyword arguments: a function from the names passed to their values
KwargKeys == {"check", "capture_output"}
Kwargs == UNION {[K -> BOOLEAN] : K \in SUBSET KwargKeys}
NoKwargs == [k \in {} |-> FALSE]

NoExit == "none"
NoChild == [exited |-> FALSE, status |-> 0]
Exited(rc) == [exited |-> TRUE, status |-> rc]
NoResult == [returned |-> FALSE, returncode |-> 0, captured |-> FALSE]
\* the CompletedProcess of subprocess.run
CompletedProcess(rc, kwargs) ==
    [returned |-> TRUE, returncode |-> rc,
     captured |-> "stdout" \in DOMAIN kwargs]

Unset == "unset"
Arches == {"x86_64", "aarch64", "s390x"}

InitProc ==
    /\ rpc = "idle"
    /\ rargs = NoArgList
    /\ rpassed = NoKwargs
    /\ rkwargs = NoKwargs
    /\ rchild = NoChild
    /\ rresult = NoResult
    /\ stdout = <<>>
    /\ exitmsg = NoExit
    /\ rcalls = 0
    /\ saved = Unset
    /\ queries = 0
    /\ returned = <<>>

\* subprocess.list2cmdline(args): the arguments joined by spaces
RECURSIVE list2cmdline(_)
list2cmdline(args) ==
    IF Len(args) = 0 THEN ""
    ELSE IF Len(args) = 1 THEN args[1]
    ELSE args[1] \o " " \o list2cmdline(Tail(args))

\* check left to subprocess.run's own default, False
DefaultCheckFalse(kwargs) ==
    IF "check" \notin DOMAIN kwargs THEN kwargs @@ ("check" :> FALSE)
    ELSE kwargs

\* lines 52-53: check defaults to True when the caller did not pass it
DefaultCheck(kwargs) ==
    IF "check" \notin DOMAIN kwargs THEN kwargs @@ ("check" :> TRUE)
    ELSE kwargs

\* lines 56-58: capture_output is popped, and when it was true stdout and
\* stderr become pipes
CaptureOutput(kwargs) ==
    LET rest == [k \in DOMAIN kwargs \ {"capture_output"} |-> kwargs[k]]
    IN  IF "capture_output" \in DOMAIN kwargs /\ kwargs["capture_output"]
        THEN rest @@ ("stdout" :> TRUE) @@ ("stderr" :> TRUE)
        ELSE rest

\* lines 49-61: the command line is printed, kwargs are completed, the
\* child is started
run_verbose_call(args, kwargs) ==
    /\ rpc = "idle"
    /\ exitmsg = NoExit
    /\ rcalls < MaxRuns
    /\ rcalls' = rcalls + 1
    /\ stdout' = Append(stdout, "+ " \o list2cmdline(args))
    /\ rargs' = args
    /\ rpassed' = kwargs
    /\ rkwargs' = CaptureOutput(DefaultCheck(kwargs))
    /\ rchild' = NoChild
    /\ rresult' = NoResult
    /\ rpc' = "running"
    /\ UNCHANGED <<exitmsg, saved, queries, returned>>
    /\ UNCHANGED <<jsonVars, importVars>>

\* lines 114-122: fatal(msg) raises SystemExit(msg), which ends the process
fatal(msg) ==
    /\ exitmsg' = msg
    /\ rpc' = "exited"

\* line 61: subprocess.run(args, **kwargs) with the child's exit status
\* rc: with check it raises CalledProcessError on a non-zero status
subprocess_run(rc, kwargs) ==
    IF kwargs["check"] /\ rc # 0 THEN "CalledProcessError" ELSE "ok"

\* line 63: the message of the fatal error
ErrorMessage(args) == "Error running command " \o args[1]

\* lines 60-64: subprocess.run(args, **kwargs) returns when the child has
\* exited; with check it raises CalledProcessError on a non-zero status,
\* which is turned into fatal(); otherwise the CompletedProcess is returned
run_verbose_exit(rc) ==
    /\ rpc = "running"
    /\ rchild' = Exited(rc)
    /\ IF subprocess_run(rc, rkwargs) = "CalledProcessError"
       THEN /\ fatal(ErrorMessage(rargs))
            /\ rresult' = rresult
       ELSE /\ rresult' = CompletedProcess(rc, rkwargs)
            /\ rpc' = "idle"
            /\ exitmsg' = exitmsg
    /\ UNCHANGED <<rargs, rpassed, rkwargs, stdout, rcalls, saved, queries,
                   returned>>
    /\ UNCHANGED <<jsonVars, importVars>>

\* the queried value returned and never stored
SavedNowhere(arch) == Unset

\* line 205: what get_basearch.saved is set to
Saved(arch) == arch

\* lines 201-206: get_basearch().  The process has one thread, which
\* run_verbose blocks while its child runs.
get_basearch ==
    /\ rpc = "idle"
    /\ exitmsg = NoExit
    /\ Len(returned) < MaxArchCalls
    /\ IF saved # Unset
       THEN /\ returned' = Append(returned, saved)
            /\ UNCHANGED <<saved, queries>>
       ELSE \E arch \in Arches :
               /\ queries' = queries + 1
               /\ saved' = Saved(arch)
               /\ returned' = Append(returned, arch)
    /\ UNCHANGED <<rpc, rargs, rpassed, rkwargs, rchild, rresult, stdout,
                   exitmsg, rcalls>>
    /\ UNCHANGED <<jsonVars, importVars>>

NextProc ==
    \/ \E args \in ArgLists, kwargs \in Kwargs : run_verbose_call(args, kwargs)
    \/ \E rc \in ExitCodes : run_verbose_exit(rc)
    \/ get_basearch

-----------------------------------------------------------------------------
(* The specifications *)

\* one state of each part, for the specifications of the other parts
JsonAtRest == InitJson /\ dir[Path] = NoFile
ImportAtRest == InitImport /\ ~repoInit
ProcAtRest == InitProc

InitSpecJson == InitJson /\ ImportAtRest /\ ProcAtRest
InitSpecImport == JsonAtRest /\ InitImport /\ ProcAtRest
InitSpecProc == JsonAtRest /\ ImportAtRest /\ InitProc

SpecJson == InitSpecJson /\ [][NextJson]_vars
SpecImport == InitSpecImport /\ [][NextImport]_vars
SpecProc == InitSpecProc /\ [][NextProc]_vars

-----------------------------------------------------------------------------
(* Properties of write_json and load_json, under SpecJson *)

\* what path held before any write_json
PriorView ==
    IF files[Prior] = NoInode THEN Missing ELSE Content(files[Prior].content)

\* the complete documents of the calls in W
Documents(W) ==
    {Content(Document(wdata[w])) : w \in {x \in W : Serializable(wdata[x])}}

Others(w) == Writers \ {w}
Alone(w) == \A o \in Others(w) : wpc[o] = "idle"

\* C1: at every point of one write_json(path, data), also after a crash
\* or failure at any step, a reader of path sees the complete prior
\* content (or no file) or the complete serialization of data, never an
\* empty or truncated document.
C1_AtomicWrite ==
    \A w \in Writers :
       (wpc[w] # "idle" /\ Alone(w)) =>
          View(Path) \in {PriorView} \cup Documents({w})

\* C2: write_json leaves no temporary file behind: once the call has
\* returned or failed, the file it created is under no temporary name.
C2_NoTempFileLeft ==
    \A w \in Writers :
       wpc[w] \in {"returned", "raised"} => \A n \in TmpNames : dir[n] # w

\* C6: with two write_json calls to the same path in flight, path always
\* holds the prior content or the complete serialization of one of the
\* two, and once both have returned it holds the complete serialization
\* of the call that renamed last.
C6_LastWriterWins ==
    (\A w \in Writers : wpc[w] # "idle") =>
       /\ View(Path) \in {PriorView} \cup Documents(Writers)
       /\ (\A w \in Writers : wpc[w] = "returned") =>
             /\ dir[Path] \in Writers
             /\ View(Path) = Content(Document(wdata[dir[Path]]))

\* C9: after write_json(p, v) has returned, load_json(p) returns v,
\* whatever p held before.
C9_RoundTrip ==
    \A w \in Writers :
       (wpc[w] = "returned" /\ Alone(w)) => load_json(Path) = Loaded(wdata[w])

-----------------------------------------------------------------------------
(* Properties of import_ostree_commit, under SpecImport *)

Ended == ipc \in {"returned", "raised"}
NSteps == Len(isteps)
Ran(steps, cmd) == \E i \in 1..Len(steps) : steps[i].cmd = cmd

\* C3: a second call with the arguments of a first one that returned,
\* force=False, runs neither the tar extraction nor the pull-local, and
\* leaves the repository as it found it.
C3_ImportIdempotent ==
    (iprev.outcome = "returned" /\ iprev.args = iargs /\ ~iargs.force) =>
       /\ ~Ran(isteps, "tar")
       /\ ~Ran(isteps, "pull")
       /\ RepoState = ibefore

C3_SecondCallSkipped ==
    /\ iprev.outcome = "returned" /\ iprev.args = iargs /\ ~iargs.force
    /\ Ran(iprev.steps, "tar") /\ Ran(iprev.steps, "pull")
    /\ ipc = "returned"
    /\ NSteps = 2

\* C4, as claimed: a failure of any of the four subprocess steps (ostree
\* init, ostree show, tar, ostree pull-local) ends the call: no step runs
\* after the failed one and the call does not return normally.
C4_AnyFailureEndsCall ==
    \A i \in 1..NSteps :
       isteps[i].rc # 0 => (i = NSteps /\ ipc # "returned")

\* C4, amended: a failure of ostree init, of the tar extraction or of
\* ostree pull-local is raised to the caller and no step runs after it;
\* a non-zero exit of the silent ostree show is not a failure of the call:
\* the call goes on to the tar extraction.
C4_CheckedFailureEndsCall ==
    \A i \in 1..NSteps :
       isteps[i].rc # 0 =>
          IF isteps[i].cmd = "show"
          THEN /\ i = NSteps => ipc = "extract"
               /\ i < NSteps => isteps[i + 1].cmd = "tar"
          ELSE i = NSteps /\ ipc = "raised"

C4_PullFailedAfterShowFailed ==
    /\ ipc = "raised"
    /\ NSteps = 4
    /\ isteps[2] = Step("show", 1)
    /\ isteps[4] = Step("pull", 1)

\* C5: when a call has ended, by return or by a failed tar or pull-local,
\* its temporary directory is gone: the temporary directories under repo
\* are those from before the call.
C5_TmpDirRemoved ==
    Ended => (tmpdirs = ibefore.tmpdirs /\ itmp = NoDir)

C5_PullFailedWithTmpDir ==
    /\ ipc = "raised"
    /\ NSteps = 4
    /\ isteps[4].rc # 0
    /\ ibefore.tmpdirs # {}

\* C10: after a successful ostree init the call returns early exactly when
\* the commit is in the repository, has no commitpartial marker and force
\* is false; otherwise it runs tar, and pull-local only after tar has
\* succeeded, with the temporary directory in place.
C10_SkipExactlyWhenComplete ==
    LET before == ibefore.commits[iargs.commit]
        skip == before.object /\ ~before.partial /\ ~iargs.force
    IN  NSteps >= 2 =>
           /\ isteps[2].cmd = "show"
           /\ isteps[2].rc = 0 <=> before.object
           /\ skip => (NSteps = 2 /\ ipc = "returned")
           /\ ~skip =>
                 /\ NSteps = 2 => ipc = "extract"
                 /\ NSteps >= 3 => isteps[3].cmd = "tar"
                 /\ NSteps >= 4 => /\ isteps[3].rc = 0
                                   /\ isteps[4].cmd = "pull"
                                   /\ NSteps = 4
                 /\ ipc = "pull" <=> (NSteps = 3 /\ isteps[3].rc = 0)
                 /\ ipc = "pull" => itmp \in tmpdirs
                 /\ ipc = "returned" => (NSteps = 4 /\ isteps[4].rc = 0)

C10_PartialCommitReimported ==
    /\ ipc = "returned"
    /\ NSteps = 4
    /\ ibefore.commits[iargs.commit] = Partial
    /\ ~iargs.force

-----------------------------------------------------------------------------
(* Properties of run_verbose and get_basearch, under SpecProc *)

C8_BasearchQueriedOnce ==
    /\ queries = (IF returned = <<>> THEN 0 ELSE 1)
    /\ returned = <<>> => saved = Unset
    /\ \A i \in 1..Len(returned) : returned[i] \in Arches /\ returned[i] = saved

C8_CachedValueReturned ==
    /\ Len(returned) >= 2
    /\ queries = 1
=============================================================================
